---- MODULE Spec2Model ----
(***************************************************************************)
(* A model of the CCM font codec and editor of src/main.py: the CCMFont    *)
(* object (header fields, glyph list, raw bytes), the TexRegion objects    *)
(* its glyphs refer to, and the operations load_file, save_file,           *)
(* export_to_text, import_from_text, dump_file, add_glyph, delete_glyph    *)
(* and update_glyph_from_table.                                            *)
(* Files are sequences of bytes (0..255) and are decoded and encoded field *)
(* by field, as struct.unpack and struct.pack do.                          *)
(***************************************************************************)
EXTENDS Integers, Sequences, FiniteSets, TLC

VARIABLES
    ccm,         \* the CCMFont object: its fields, glyphs a sequence of Glyph records
    heap,        \* the TexRegion objects; a glyph's tex_region is an index into heap
    table_rows,  \* the number of rows of the editor's table
    disk,        \* the file save_file writes: [readable, data], unreadable until written
    text,        \* the file export_to_text writes: [readable, lines]
    last,        \* the last operation: [op, ok, msg, row, column, io_ok]
    steps,       \* the number of operations performed so far
    intact       \* history: no load_file or import_from_text has returned failure

vars == <<ccm, heap, table_rows, disk, text, last, steps, intact>>

(***************************************************************************)
(* Bounds of the model.                                                    *)
(***************************************************************************)
\* the editor performs at most MaxSteps operations in a behaviour
MaxSteps == 3
\* add_glyph is offered while the font holds fewer than MaxLive glyphs
MaxLive == 2
\* a generated input file stores at most MaxRegions regions ...
MaxRegions == 2
\* ... and at most MaxGlyphs glyph records
MaxGlyphs == 2

(***************************************************************************)
(* Python helpers: slices, struct.calcsize / unpack / pack.                *)
(***************************************************************************)
Min(a, b) == IF a < b THEN a ELSE b

\* Op applied to the value of v.  (LET names an expression, evaluated again at
\* each use; Bind evaluates v once.)
Bind(v, Op(_)) == CHOOSE r \in {Op(x) : x \in {v}} : TRUE

\* s[a:b] for 0 <= a, 0 <= b: clipped to the length of s, never an error
Slice(s, a, b) ==
    IF a >= Len(s) \/ b <= a THEN <<>> ELSE SubSeq(s, a + 1, Min(b, Len(s)))

\* the size in bytes of one struct format code
CodeSize(c) ==
    CASE c = "I" -> 4
      [] c = "i" -> 4
      [] c = "H" -> 2
      [] c = "h" -> 2
      [] c = "2s" -> 2
      [] c = "x" -> 1

RECURSIVE calcsize(_)
calcsize(fmt) ==
    IF fmt = <<>> THEN 0 ELSE CodeSize(Head(fmt)) + calcsize(Tail(fmt))

\* the little-endian value of a byte string
RECURSIVE LEValue(_)
LEValue(bs) == IF bs = <<>> THEN 0 ELSE Head(bs) + 256 * LEValue(Tail(bs))

\* the n little-endian bytes of v (two's complement for v < 0)
RECURSIVE LEBytes(_, _)
LEBytes(v, n) ==
    IF n = 0 THEN <<>> ELSE <<v % 256>> \o LEBytes(v \div 256, n - 1)

\* the value struct.unpack gives for one code over its bytes
CodeValue(c, bs) ==
    CASE c = "I" -> LEValue(bs)
      [] c = "H" -> LEValue(bs)
      [] c = "h" -> IF LEValue(bs) >= 32768 THEN LEValue(bs) - 65536 ELSE LEValue(bs)
      [] c = "i" -> IF bs[4] >= 128
                    THEN LEValue([bs EXCEPT ![4] = bs[4] - 128]) - 2147483647 - 1
                    ELSE LEValue(bs)
      [] c = "2s" -> bs
      [] c = "x" -> bs

RECURSIVE UnpackFields(_, _)
UnpackFields(fmt, bs) ==
    IF fmt = <<>> THEN <<>>
    ELSE LET n == CodeSize(Head(fmt))
             rest == UnpackFields(Tail(fmt), SubSeq(bs, n + 1, Len(bs)))
         IN IF Head(fmt) = "x" THEN rest
            ELSE <<CodeValue(Head(fmt), SubSeq(bs, 1, n))>> \o rest

\* an unpack that reads the bytes a short buffer lacks as zeros
unpack_ZeroFilled(fmt, bs) ==
    [ok |-> TRUE,
     val |-> UnpackFields(fmt, [k \in 1..calcsize(fmt) |->
                                   IF k <= Len(bs) THEN bs[k] ELSE 0])]

\* struct.unpack(fmt, bs): struct.error unless bs has exactly calcsize(fmt) bytes
unpack(fmt, bs) ==
    IF Len(bs) # calcsize(fmt) THEN [ok |-> FALSE, val |-> <<>>]
    ELSE [ok |-> TRUE, val |-> UnpackFields(fmt, bs)]

\* whether struct.pack accepts value v for code c
InRange(c, v) ==
    CASE c = "I" -> v >= 0
      [] c = "H" -> v >= 0 /\ v <= 65535
      [] c = "h" -> v >= -32768 /\ v <= 32767
      [] c = "i" -> TRUE
      [] c = "2s" -> TRUE

\* the codes of a format that take an argument (pad bytes take none)
RECURSIVE Items(_)
Items(fmt) ==
    IF fmt = <<>> THEN <<>>
    ELSE IF Head(fmt) = "x" THEN Items(Tail(fmt))
    ELSE <<Head(fmt)>> \o Items(Tail(fmt))

RECURSIVE PackFields(_, _)
PackFields(fmt, args) ==
    IF fmt = <<>> THEN <<>>
    ELSE IF Head(fmt) = "x" THEN <<0>> \o PackFields(Tail(fmt), args)
    ELSE LEBytes(Head(args), CodeSize(Head(fmt))) \o PackFields(Tail(fmt), Tail(args))

\* struct.pack(fmt, *args): struct.error when the number of arguments is not the
\* number of items of the format, or when an argument is out of its code's range
pack(fmt, args) ==
    IF Len(Items(fmt)) # Len(args) THEN [ok |-> FALSE, val |-> <<>>]
    ELSE IF \E k \in 1..Len(args) : ~InRange(Items(fmt)[k], args[k])
    THEN [ok |-> FALSE, val |-> <<>>]
    ELSE [ok |-> TRUE, val |-> PackFields(fmt, args)]

(***************************************************************************)
(* Python text helpers.  A string is a sequence of one-character strings;  *)
(* a text file is the sequence of its lines.                               *)
(***************************************************************************)
Whitespace == {" ", "\t", "\n", "\r"}
Digits == <<"0", "1", "2", "3", "4", "5", "6", "7", "8", "9">>
IsDigit(c) == \E d \in 1..10 : Digits[d] = c
DigitValue(c) == (CHOOSE d \in 1..10 : Digits[d] = c) - 1

RECURSIVE LStrip(_)
LStrip(s) == IF s # <<>> /\ Head(s) \in Whitespace THEN LStrip(Tail(s)) ELSE s

RECURSIVE RStrip(_)
RStrip(s) ==
    IF s # <<>> /\ s[Len(s)] \in Whitespace THEN RStrip(SubSeq(s, 1, Len(s) - 1))
    ELSE s

\* s.strip()
strip(s) == RStrip(LStrip(s))

\* s.startswith(prefix)
startswith(s, prefix) ==
    Len(s) >= Len(prefix) /\ SubSeq(s, 1, Len(prefix)) = prefix

\* s.find(sep) + 1: the place of the first occurrence of sep in s, 0 when none
Find(s, sep) ==
    LET hits == {i \in 1..(Len(s) - Len(sep) + 1) :
                    SubSeq(s, i, i + Len(sep) - 1) = sep}
    IN IF hits = {} THEN 0 ELSE CHOOSE i \in hits : \A j \in hits : i <= j

\* s.split(sep)
RECURSIVE split(_, _)
split(s, sep) ==
    Bind(<<s, Find(s, sep)>>, LAMBDA a :
        IF a[2] = 0 THEN <<a[1]>>
        ELSE <<SubSeq(a[1], 1, a[2] - 1)>>
             \o split(SubSeq(a[1], a[2] + Len(sep), Len(a[1])), sep))

RECURSIVE DigitsValue(_, _)
DigitsValue(s, acc) ==
    IF s = <<>> THEN acc ELSE DigitsValue(Tail(s), 10 * acc + DigitValue(Head(s)))

\* int(s): optional blanks around an optional sign and one or more digits;
\* anything else is a ValueError
int(s) ==
    Bind(strip(s), LAMBDA t :
    LET signed == t # <<>> /\ Head(t) \in {"-", "+"}
        body == IF signed THEN Tail(t) ELSE t
    IN IF body = <<>> \/ \E k \in 1..Len(body) : ~IsDigit(body[k])
       THEN [ok |-> FALSE, val |-> 0]
       ELSE [ok |-> TRUE,
             val |-> IF signed /\ Head(t) = "-" THEN 0 - DigitsValue(body, 0)
                     ELSE DigitsValue(body, 0)])

\* the decimal digits of n >= 0
RECURSIVE NatStr(_)
NatStr(n) ==
    IF n < 10 THEN <<Digits[n + 1]>> ELSE NatStr(n \div 10) \o <<Digits[(n % 10) + 1]>>

\* str(n), as an f-string formats an int
str(n) == IF n < 0 THEN <<"-">> \o NatStr(0 - n) ELSE NatStr(n)

\* eval(s) on the expressions the editor's texts hold: an integer literal, or
\* integer literals separated by commas, in parentheses or not.  val is the
\* tuple of the integers (is_tuple) or <<the integer>>; every other text
\* (an unbalanced parenthesis, a name, an empty text) raises.
eval(s) ==
    Bind(strip(s), LAMBDA t :
    LET opened == t # <<>> /\ Head(t) = "("
        closed == t # <<>> /\ t[Len(t)] = ")"
        inner == IF opened /\ closed THEN SubSeq(t, 2, Len(t) - 1) ELSE t
    IN IF opened # closed \/ (opened /\ Len(t) < 2)
       THEN [ok |-> FALSE, is_tuple |-> FALSE, val |-> <<>>]
       ELSE Bind(split(inner, <<",">>), LAMBDA elems :
                IF \E k \in 1..Len(elems) : ~int(elems[k]).ok
                THEN [ok |-> FALSE, is_tuple |-> FALSE, val |-> <<>>]
                ELSE [ok |-> TRUE, is_tuple |-> Len(elems) > 1,
                      val |-> [k \in 1..Len(elems) |-> int(elems[k]).val]]))

(***************************************************************************)
(* The objects: CCMFont, Glyph, TexRegion.                                 *)
(***************************************************************************)
\* TexRegion(x1, y1, x2, y2)
TexRegion(x1, y1, x2, y2) == [x1 |-> x1, y1 |-> y1, x2 |-> x2, y2 |-> y2]

\* Glyph(code, index, texture_id, prespace, width, advance, tex_region)
Glyph(code, index, texture_id, prespace, width, advance, tex_region) ==
    [code |-> code, index |-> index, texture_id |-> texture_id,
     prespace |-> prespace, width |-> width, advance |-> advance,
     tex_region |-> tex_region]

\* CCMFont(): the font after construction
CCMFont ==
    [format |-> 0, file_size |-> 0, font_height |-> 0, texture_width |-> 0,
     texture_height |-> 0, tex_region_count |-> 0, glyph_count |-> 0,
     tex_region_offset |-> 0, glyph_offset |-> 0, alignment |-> 0,
     texture_count |-> 1, glyphs |-> <<>>, filename |-> "", raw_data |-> <<>>]

\* the value returned by an operation, with the objects as it leaves them
Return(self, hp, ok, msg) == [self |-> self, heap |-> hp, ok |-> ok, msg |-> msg]

\* a max that looks at the first glyph only
MaxTextureId_First(glyphs) == glyphs[1].texture_id

\* max of a non-empty sequence of glyphs' texture_id
RECURSIVE MaxTextureId(_)
MaxTextureId(glyphs) ==
    IF Len(glyphs) = 1 THEN glyphs[1].texture_id
    ELSE LET m == MaxTextureId(Tail(glyphs))
         IN IF glyphs[1].texture_id > m THEN glyphs[1].texture_id ELSE m

(***************************************************************************)
(* CCMFont.load_file                                                       *)
(***************************************************************************)
\* the header as load_file unpacks it
load_header_format == <<"I", "I", "H", "H", "H", "H", "H", "2s", "I", "I", "H", "H">>
tex_region_format == <<"h", "h", "h", "h">>
load_glyph_format == <<"I", "I", "h", "h", "h", "h", "i", "i">>
MAGIC == 131072

\* the loop over range(self.tex_region_count): the regions unpacked so far, or
\* the struct.error of a slice shorter than a region
RECURSIVE ParseTexRegions(_, _, _)
ParseTexRegions(self, i, tex_regions) ==
    IF i >= self.tex_region_count THEN [ok |-> TRUE, val |-> tex_regions]
    ELSE LET tex_region_size == calcsize(tex_region_format)
             offset == self.tex_region_offset + i * tex_region_size
             u == unpack(tex_region_format,
                         Slice(self.raw_data, offset, offset + tex_region_size))
         IN IF ~u.ok THEN [ok |-> FALSE, val |-> tex_regions]
            ELSE ParseTexRegions(self, i + 1,
                     Append(tex_regions,
                            TexRegion(u.val[1], u.val[2], u.val[3], u.val[4])))

\* the glyph loop without the test that the reference lies a whole number of
\* regions after the region table
RECURSIVE ParseGlyphs_NoAlign(_, _, _, _, _)
ParseGlyphs_NoAlign(self, base, n_regions, i, glyphs) ==
    IF i >= self.glyph_count THEN [ok |-> TRUE, msg |-> "Success", glyphs |-> glyphs]
    ELSE LET offset == self.glyph_offset + i * 24
             u == unpack(<<"I", "I", "h", "h", "h", "h", "i", "i">>,
                         Slice(self.raw_data, offset, offset + 24))
             tex_idx == (u.val[2] - self.tex_region_offset) \div 8
         IN IF ~u.ok
            THEN [ok |-> FALSE, msg |-> "Unexpected error loading CCM file",
                  glyphs |-> glyphs]
            ELSE IF u.val[2] < self.tex_region_offset
            THEN [ok |-> FALSE, msg |-> "invalid texRegionOffset", glyphs |-> glyphs]
            ELSE IF tex_idx < 0 \/ tex_idx >= n_regions
            THEN [ok |-> FALSE, msg |-> "texRegion index out of range",
                  glyphs |-> glyphs]
            ELSE ParseGlyphs_NoAlign(self, base, n_regions, i + 1,
                     Append(glyphs,
                            Glyph(u.val[1], i, u.val[3], u.val[4], u.val[5],
                                  u.val[6], base + tex_idx + 1)))

\* the loop over range(self.glyph_count); base is the heap index before the
\* first of the n_regions TexRegion objects just created. Gives the glyphs
\* appended to self.glyphs when the loop ends or returns, and what it returned.
RECURSIVE ParseGlyphs(_, _, _, _, _)
ParseGlyphs(self, base, n_regions, i, glyphs) ==
    IF i >= self.glyph_count THEN [ok |-> TRUE, msg |-> "Success", glyphs |-> glyphs]
    ELSE LET glyph_size == calcsize(load_glyph_format)
             tex_region_size == calcsize(tex_region_format)
             offset == self.glyph_offset + i * glyph_size
             u == unpack(load_glyph_format,
                         Slice(self.raw_data, offset, offset + glyph_size))
         IN IF ~u.ok
            THEN [ok |-> FALSE, msg |-> "Unexpected error loading CCM file",
                  glyphs |-> glyphs]
            ELSE LET code == u.val[1]
                     tex_region_offset == u.val[2]
                     texture_id == u.val[3]
                     prespace == u.val[4]
                     width == u.val[5]
                     advance == u.val[6]
                     tex_idx == (tex_region_offset - self.tex_region_offset)
                                    \div tex_region_size
                 IN IF tex_region_offset < self.tex_region_offset
                       \/ (tex_region_offset - self.tex_region_offset)
                              % tex_region_size # 0
                    THEN [ok |-> FALSE, msg |-> "invalid texRegionOffset",
                          glyphs |-> glyphs]
                    ELSE IF tex_idx < 0 \/ tex_idx >= n_regions
                    THEN [ok |-> FALSE, msg |-> "texRegion index out of range",
                          glyphs |-> glyphs]
                    ELSE ParseGlyphs(self, base, n_regions, i + 1,
                             Append(glyphs,
                                    Glyph(code, i, texture_id, prespace, width,
                                          advance, base + tex_idx + 1)))

\* the header checks with the size check before the magic check
ValidateHeader_SizeFirst(self, file_size, header_size) ==
    IF self.file_size > file_size THEN "File size mismatch"
    ELSE IF self.format # 131072 THEN "Invalid CCM format"
    ELSE IF self.tex_region_offset < header_size \/ self.glyph_offset < header_size
    THEN "Invalid offsets"
    ELSE ""

\* the header checks without the size check
ValidateHeader_NoSizeCheck(self, file_size, header_size) ==
    IF self.format # 131072 THEN "Invalid CCM format"
    ELSE IF self.tex_region_offset < header_size \/ self.glyph_offset < header_size
    THEN "Invalid offsets"
    ELSE ""

\* the header checks of load_file, in the order of the code: "" when all pass
ValidateHeader(self, file_size, header_size) ==
    IF self.format # MAGIC THEN "Invalid CCM format"
    ELSE IF self.file_size > file_size THEN "File size mismatch"
    ELSE IF self.tex_region_offset < header_size \/ self.glyph_offset < header_size
    THEN "Invalid offsets"
    ELSE ""

\* load_file(file_path) on font self with TexRegion objects hp; f is the file at
\* file_path: f.readable says whether open() succeeds, f.data are its bytes
load_file(self, hp, file_path, f) ==
    IF ~f.readable THEN Return(self, hp, FALSE, "Unexpected error loading CCM file")
    ELSE
    LET s1 == [self EXCEPT !.raw_data = f.data]
        file_size == Len(s1.raw_data)
        header_size == calcsize(load_header_format)
    IN IF file_size < header_size
       THEN Return(s1, hp, FALSE, "File too small for header")
       ELSE
       LET header == unpack(load_header_format, Slice(s1.raw_data, 0, header_size)).val
           s2 == [s1 EXCEPT !.format = header[1], !.file_size = header[2],
                            !.font_height = header[3], !.texture_width = header[4],
                            !.texture_height = header[5],
                            !.tex_region_count = header[6],
                            !.glyph_count = header[7],
                            !.tex_region_offset = header[9],
                            !.glyph_offset = header[10], !.alignment = header[11],
                            !.texture_count = header[12]]
           invalid == ValidateHeader(s2, file_size, header_size)
       IN IF invalid # "" THEN Return(s2, hp, FALSE, invalid)
          ELSE
          LET s3 == [s2 EXCEPT !.glyphs = <<>>]
              tr == ParseTexRegions(s3, 0, <<>>)
          IN IF ~tr.ok
             THEN Return(s3, hp, FALSE, "Unexpected error loading CCM file")
             ELSE
             LET hp2 == hp \o tr.val
                 pg == ParseGlyphs(s3, Len(hp), Len(tr.val), 0, <<>>)
                 s4 == [s3 EXCEPT !.glyphs = pg.glyphs]
             IN IF ~pg.ok THEN Return(s4, hp2, FALSE, pg.msg)
                ELSE
                LET s5 == IF s4.glyphs # <<>>
                          THEN [s4 EXCEPT !.texture_count =
                                              MaxTextureId(s4.glyphs) + 1]
                          ELSE s4
                IN Return([s5 EXCEPT !.filename = file_path], hp2, TRUE, "Success")

(***************************************************************************)
(* CCMFont.save_file                                                       *)
(***************************************************************************)
save_header_format ==
    <<"I", "I", "H", "H", "H", "H", "H", "H", "x", "x", "I", "I", "h", "h">>
save_glyph_format == <<"I", "I", "H", "H", "H", "H", "I", "I">>

\* data += struct.pack(fmt, ...) once per element of argss, in order: the bytes
\* appended, or the struct.error of the first pack that fails
RECURSIVE PackAll(_, _)
PackAll(fmt, argss) ==
    IF argss = <<>> THEN [ok |-> TRUE, val |-> <<>>]
    ELSE LET first == pack(fmt, Head(argss))
             rest == PackAll(fmt, Tail(argss))
         IN IF ~first.ok \/ ~rest.ok THEN [ok |-> FALSE, val |-> <<>>]
            ELSE [ok |-> TRUE, val |-> first.val \o rest.val]

\* the arguments save_file gives struct.pack for the header
SaveHeaderArgs(self, tex_region_offset, glyph_offset) ==
    <<MAGIC, self.file_size, self.font_height, self.texture_width,
      self.texture_height, self.tex_region_count, self.glyph_count,
      tex_region_offset, glyph_offset, self.alignment, self.texture_count>>

\* save_file(file_path); io_ok says whether open() and write() succeed.
\* wrote says whether the file was written, data are the bytes built.
save_file(self, hp, file_path, io_ok) ==
    LET header_size == calcsize(save_header_format)
        glyph_size == calcsize(save_glyph_format)
        tex_region_size == calcsize(tex_region_format)
        n == Len(self.glyphs)
        s1 == [self EXCEPT !.tex_region_count = n, !.glyph_count = n,
                           !.texture_count =
                               (IF n = 0 THEN 0 ELSE MaxTextureId(self.glyphs)) + 1]
        tex_region_offset == header_size
        glyph_offset == tex_region_offset + s1.tex_region_count * tex_region_size
        s2 == [s1 EXCEPT !.file_size = header_size
                                       + s1.tex_region_count * tex_region_size
                                       + s1.glyph_count * glyph_size]
        header == pack(save_header_format,
                       SaveHeaderArgs(s2, tex_region_offset, glyph_offset))
        regions == PackAll(tex_region_format,
                       [k \in 1..n |->
                           <<hp[s2.glyphs[k].tex_region].x1,
                             hp[s2.glyphs[k].tex_region].y1,
                             hp[s2.glyphs[k].tex_region].x2,
                             hp[s2.glyphs[k].tex_region].y2>>])
        records == PackAll(save_glyph_format,
                       [k \in 1..n |->
                           <<s2.glyphs[k].code,
                             header_size + (k - 1) * tex_region_size,
                             s2.glyphs[k].texture_id, s2.glyphs[k].prespace,
                             s2.glyphs[k].width, s2.glyphs[k].advance, 0, 0>>])
        Failed == [self |-> s2, heap |-> hp, ok |-> FALSE,
                   msg |-> "Failed to save CCM file", wrote |-> FALSE,
                   data |-> <<>>]
    IN IF ~header.ok THEN Failed
       ELSE IF ~regions.ok THEN Failed
       ELSE IF ~records.ok THEN Failed
       ELSE IF ~io_ok THEN Failed
       ELSE [self |-> s2, heap |-> hp, ok |-> TRUE, msg |-> "Success",
             wrote |-> TRUE, data |-> header.val \o regions.val \o records.val]

(***************************************************************************)
(* CCMFont.export_to_text and import_from_text                             *)
(***************************************************************************)
kHeight == <<"H", "e", "i", "g", "h", "t", ":">>
kTextureWidth == <<"T", "e", "x", "t", "u", "r", "e", "W", "i", "d", "t", "h", ":">>
kTextureHeight == <<"T", "e", "x", "t", "u", "r", "e", "H", "e", "i", "g", "h", "t", ":">>
kNumTextures == <<"N", "u", "m", "T", "e", "x", "t", "u", "r", "e", "s", ":">>
kNumGlyphs == <<"N", "u", "m", "G", "l", "y", "p", "h", "s", ":">>
kCode == <<"c", "o", "d", "e", "=">>
kTextureId == <<"t", "e", "x", "t", "u", "r", "e", "I", "d", "=">>
kPrespace == <<"p", "r", "e", "s", "p", "a", "c", "e", "=">>
kWidth == <<"w", "i", "d", "t", "h", "=">>
kAdvance == <<"a", "d", "v", "a", "n", "c", "e", "=">>
kTop == <<"t", "o", "p", "=">>
kBottom == <<"b", "o", "t", "t", "o", "m", "=">>
kSep == <<",", " ">>

\* the line export_to_text writes for one glyph
ExportGlyphLine(glyph, region) ==
    kCode \o str(glyph.code) \o kSep \o kTextureId \o str(glyph.texture_id) \o kSep
    \o kPrespace \o str(glyph.prespace) \o kSep \o kWidth \o str(glyph.width) \o kSep
    \o kAdvance \o str(glyph.advance) \o kSep
    \o kTop \o <<"(">> \o str(region.x1) \o kSep \o str(region.y1) \o <<")">> \o kSep
    \o kBottom \o <<"(">> \o str(region.x2) \o kSep \o str(region.y2) \o <<")">>

\* export_to_text(file_path): the lines written; io_ok says whether open()
\* and the writes succeed
export_to_text(self, hp, io_ok) ==
    IF ~io_ok
    THEN [self |-> self, heap |-> hp, ok |-> FALSE,
          msg |-> "Failed to export to text", lines |-> <<>>]
    ELSE [self |-> self, heap |-> hp, ok |-> TRUE, msg |-> "Success",
          lines |-> << kHeight \o <<" ">> \o str(self.font_height),
                       kTextureWidth \o <<" ">> \o str(self.texture_width),
                       kTextureHeight \o <<" ">> \o str(self.texture_height),
                       kNumTextures \o <<" ">> \o str(self.texture_count),
                       kNumGlyphs \o <<" ">> \o str(self.glyph_count),
                       <<>> >>
                    \o [k \in 1..Len(self.glyphs) |->
                           ExportGlyphLine(self.glyphs[k],
                                           hp[self.glyphs[k].tex_region])]]

\* int(line.split(":")[1])
HeaderValue(line) ==
    Bind(split(line, <<":">>), LAMBDA parts :
        IF Len(parts) < 2 THEN [ok |-> FALSE, val |-> 0] ELSE int(parts[2]))

\* parts[k].split("=")[1] (k from 1): IndexError when there is no such part or
\* no "=" in it
PartValue(parts, k) ==
    IF Len(parts) < k THEN [ok |-> FALSE, val |-> <<>>]
    ELSE Bind(split(parts[k], <<"=">>), LAMBDA kv :
             IF Len(kv) < 2 THEN [ok |-> FALSE, val |-> <<>>]
             ELSE [ok |-> TRUE, val |-> kv[2]])

\* int(parts[k].split("=")[1])
PartInt(parts, k) ==
    Bind(PartValue(parts, k), LAMBDA p :
        IF p.ok THEN int(p.val) ELSE [ok |-> FALSE, val |-> 0])

\* eval(parts[k].split("=")[1]), its value then read as v[0], v[1]
PartPair(parts, k) ==
    Bind(PartValue(parts, k), LAMBDA p :
        IF ~p.ok THEN [ok |-> FALSE, val |-> <<>>]
        ELSE Bind(eval(p.val), LAMBDA v :
                 IF v.ok /\ v.is_tuple THEN [ok |-> TRUE, val |-> v.val]
                 ELSE [ok |-> FALSE, val |-> <<>>]))

\* one pass of the loop body of import_from_text: the font and the TexRegion
\* objects after the line, and whether the line raised
ImportLine(self, hp, raw_line) ==
    Bind(strip(raw_line), LAMBDA line :
    LET v == HeaderValue(line)
        Raise == [self |-> self, heap |-> hp, ok |-> FALSE]
        Go(s) == [self |-> s, heap |-> hp, ok |-> TRUE]
    IN IF line = <<>> THEN Go(self)
       ELSE IF startswith(line, kHeight)
       THEN IF v.ok THEN Go([self EXCEPT !.font_height = v.val]) ELSE Raise
       ELSE IF startswith(line, kTextureWidth)
       THEN IF v.ok THEN Go([self EXCEPT !.texture_width = v.val]) ELSE Raise
       ELSE IF startswith(line, kTextureHeight)
       THEN IF v.ok THEN Go([self EXCEPT !.texture_height = v.val]) ELSE Raise
       ELSE IF startswith(line, kNumTextures)
       THEN IF v.ok THEN Go([self EXCEPT !.texture_count = v.val]) ELSE Raise
       ELSE IF startswith(line, kNumGlyphs)
       THEN IF v.ok THEN Go([self EXCEPT !.glyph_count = v.val]) ELSE Raise
       ELSE IF startswith(line, kCode)
       THEN Bind(split(line, kSep), LAMBDA parts :
            Bind(<<PartInt(parts, 1), PartInt(parts, 2), PartInt(parts, 3),
                   PartInt(parts, 4), PartInt(parts, 5), PartPair(parts, 6),
                   PartPair(parts, 7)>>, LAMBDA field :
            LET code == field[1]
                texture_id == field[2]
                prespace == field[3]
                width == field[4]
                advance == field[5]
                top == field[6]
                bottom == field[7]
            IN IF ~code.ok \/ ~texture_id.ok \/ ~prespace.ok \/ ~width.ok
                  \/ ~advance.ok \/ ~top.ok \/ ~bottom.ok
               THEN Raise
               ELSE IF texture_id.val >= self.texture_count THEN Go(self)
               ELSE [self |-> [self EXCEPT !.glyphs =
                                   Append(@, Glyph(code.val, Len(self.glyphs),
                                                   texture_id.val, prespace.val,
                                                   width.val, advance.val,
                                                   Len(hp) + 1))],
                     heap |-> Append(hp, TexRegion(top.val[1], top.val[2],
                                                   bottom.val[1], bottom.val[2])),
                     ok |-> TRUE]))
       ELSE Go(self))

\* the loop over the lines: stops at the first line that raises
RECURSIVE ImportLines(_, _, _)
ImportLines(self, hp, lines) ==
    IF lines = <<>> THEN [self |-> self, heap |-> hp, ok |-> TRUE]
    ELSE Bind(ImportLine(self, hp, Head(lines)), LAMBDA r :
             IF ~r.ok THEN r ELSE ImportLines(r.self, r.heap, Tail(lines)))

\* import_from_text(file_path); f is the text file: f.readable says whether
\* open() succeeds, f.lines are its lines
import_from_text(self, hp, f) ==
    IF ~f.readable THEN Return(self, hp, FALSE, "Failed to import from text")
    ELSE Bind(ImportLines([self EXCEPT !.glyphs = <<>>], hp, f.lines), LAMBDA r :
             IF ~r.ok THEN Return(r.self, r.heap, FALSE, "Failed to import from text")
             ELSE Return([r.self EXCEPT !.tex_region_count = Len(r.self.glyphs),
                                        !.glyph_count = Len(r.self.glyphs)],
                         r.heap, TRUE, "Success"))

(***************************************************************************)
(* CCMFont.dump_file                                                       *)
(***************************************************************************)
HexDigits ==
    <<"0", "1", "2", "3", "4", "5", "6", "7", "8", "9", "a", "b", "c", "d", "e", "f">>

\* binascii.hexlify(chunk).decode(): two hex digits per byte, nothing between
RECURSIVE hexlify(_)
hexlify(chunk) ==
    IF chunk = <<>> THEN <<>>
    ELSE <<HexDigits[(Head(chunk) \div 16) + 1], HexDigits[(Head(chunk) % 16) + 1]>>
         \o hexlify(Tail(chunk))

\* the hex digits of n >= 0
RECURSIVE HexStr(_)
HexStr(n) ==
    IF n < 16 THEN <<HexDigits[n + 1]>>
    ELSE HexStr(n \div 16) \o <<HexDigits[(n % 16) + 1]>>

\* f"{i:08x}": zeros before the digits up to 8 characters
Hex08(i) == [k \in 1..(8 - Len(HexStr(i))) |-> "0"] \o HexStr(i)

\* f"{s:<32}": blanks after s up to 32 characters
LeftAlign32(s) == s \o [k \in 1..(32 - Len(s)) |-> " "]

\* chr(c) for c in 32..126 ("grave" stands for the grave accent, chr(96),
\* which a TLA+ string cannot hold)
Printable ==
    <<" ", "!", "\"", "#", "$", "%", "&", "'", "(", ")", "*", "+", ",", "-", ".", "/",
       "0", "1", "2", "3", "4", "5", "6", "7", "8", "9", ":", ";", "<", "=", ">", "?",
       "@", "A", "B", "C", "D", "E", "F", "G", "H", "I", "J", "K", "L", "M", "N", "O",
       "P", "Q", "R", "S", "T", "U", "V", "W", "X", "Y", "Z", "[", "\\", "]", "^", "_",
       "grave", "a", "b", "c", "d", "e", "f", "g", "h", "i", "j", "k", "l", "m", "n", "o",
       "p", "q", "r", "s", "t", "u", "v", "w", "x", "y", "z", "{", "|", "}", "~">>

\* ''.join(chr(c) if 32 <= c < 127 else '.' for c in chunk)
ascii_part(chunk) ==
    [k \in 1..Len(chunk) |->
        IF 32 <= chunk[k] /\ chunk[k] < 127 THEN Printable[chunk[k] - 31] ELSE "."]

\* the line appended for the chunk raw_data[i:i+16]
DumpLine(raw_data, i) ==
    Hex08(i) \o <<" ", " ">> \o LeftAlign32(hexlify(Slice(raw_data, i, i + 16)))
    \o <<" ", " ">> \o ascii_part(Slice(raw_data, i, i + 16))

\* '\n'.join(lines)
RECURSIVE Join(_)
Join(lines) ==
    IF lines = <<>> THEN <<>>
    ELSE IF Len(lines) = 1 THEN lines[1]
    ELSE lines[1] \o <<"\n">> \o Join(Tail(lines))

\* dump_file(): dump is the text returned with True, msg the message
\* returned with False
dump_file(self) ==
    IF self.raw_data = <<>>
    THEN [ok |-> FALSE, msg |-> "No file loaded", dump |-> <<>>]
    ELSE [ok |-> TRUE, msg |-> "",
          dump |-> Join([k \in 1..((Len(self.raw_data) + 15) \div 16) |->
                            DumpLine(self.raw_data, 16 * (k - 1))])]

(***************************************************************************)
(* Object identity.  Python frees the TexRegion objects no glyph refers    *)
(* to; the model keeps only the referenced ones, numbered in the order the *)
(* glyphs first refer to them, so that two glyphs sharing one TexRegion    *)
(* object hold the same index.                                             *)
(***************************************************************************)
RECURSIVE FirstRefs(_, _)
FirstRefs(glyphs, acc) ==
    IF glyphs = <<>> THEN acc
    ELSE IF \E k \in 1..Len(acc) : acc[k] = Head(glyphs).tex_region
    THEN FirstRefs(Tail(glyphs), acc)
    ELSE FirstRefs(Tail(glyphs), Append(acc, Head(glyphs).tex_region))

Collect(self, hp) ==
    LET order == FirstRefs(self.glyphs, <<>>)
        NewRef(r) == CHOOSE k \in 1..Len(order) : order[k] = r
    IN [self |-> [self EXCEPT !.glyphs =
                      [k \in 1..Len(self.glyphs) |->
                          [self.glyphs[k] EXCEPT !.tex_region =
                              NewRef(self.glyphs[k].tex_region)]]],
        heap |-> [k \in 1..Len(order) |-> hp[order[k]]]]

(***************************************************************************)
(* Input files.  A file image is a header, gap pad bytes, the regions and  *)
(* the glyph records, laid out as the format's tables say (little-endian). *)
(***************************************************************************)
HeaderBytes(h) ==
    LEBytes(h.format, 4) \o LEBytes(h.file_size, 4) \o LEBytes(h.font_height, 2)
    \o LEBytes(h.texture_width, 2) \o LEBytes(h.texture_height, 2)
    \o LEBytes(h.tex_region_count, 2) \o LEBytes(h.glyph_count, 2) \o <<0, 0>>
    \o LEBytes(h.tex_region_offset, 4) \o LEBytes(h.glyph_offset, 4)
    \o LEBytes(h.alignment, 2) \o LEBytes(h.texture_count, 2)

RegionBytes(r) ==
    LEBytes(r.x1, 2) \o LEBytes(r.y1, 2) \o LEBytes(r.x2, 2) \o LEBytes(r.y2, 2)

RecordBytes(g) ==
    LEBytes(g.code, 4) \o LEBytes(g.tex_region_offset, 4) \o LEBytes(g.texture_id, 2)
    \o LEBytes(g.prespace, 2) \o LEBytes(g.width, 2) \o LEBytes(g.advance, 2)
    \o LEBytes(g.reserved0, 4) \o LEBytes(g.reserved1, 4)

RECURSIVE Flatten(_)
Flatten(ss) == IF ss = <<>> THEN <<>> ELSE Head(ss) \o Flatten(Tail(ss))

Zeros(n) == [k \in 1..n |-> 0]

Image(h, gap, regs, recs) ==
    HeaderBytes(h) \o Zeros(gap)
    \o Flatten([k \in 1..Len(regs) |-> RegionBytes(regs[k])])
    \o Flatten([k \in 1..Len(recs) |-> RecordBytes(recs[k])])

File(data) == [readable |-> TRUE, data |-> data]
Unreadable == [readable |-> FALSE, data |-> <<>>]

\* the j-th region and the k-th glyph record of a generated file (j, k from 1)
GenRegion(j) == TexRegion(10 * j, 0 - j, 10 * j + 7, 12 + j)
GenRecord(k, tex_region_offset, texture_id) ==
    [code |-> 64 + k, tex_region_offset |-> tex_region_offset,
     texture_id |-> texture_id, prespace |-> 0 - k, width |-> 7 + k,
     advance |-> 9 + k, reserved0 |-> 0, reserved1 |-> IF k = 2 THEN 1 ELSE 0]

\* the header of a well-formed file of nregs regions and nrecs records
GenHeader(gap, nregs, nrecs) ==
    [format |-> MAGIC, file_size |-> 32 + gap + 8 * nregs + 24 * nrecs,
     font_height |-> 16, texture_width |-> 256, texture_height |-> 128,
     tex_region_count |-> nregs, glyph_count |-> nrecs,
     tex_region_offset |-> 32 + gap, glyph_offset |-> 32 + gap + 8 * nregs,
     alignment |-> 4, texture_count |-> 1]

\* what one generated glyph record holds: the byte distance of its region
\* reference from the region table, and its texture id
RecKinds ==
    [ref : {8 * j : j \in 0..MaxRegions} \cup {4, 0 - 8}, tid : {0}]
    \cup [ref : {0}, tid : {1, 3, 0 - 1}]

GenRecords(gap, kinds) ==
    [k \in 1..Len(kinds) |-> GenRecord(k, 32 + gap + kinds[k].ref, kinds[k].tid)]

GenRegions(nregs) == [j \in 1..nregs |-> GenRegion(j)]

\* files with a valid header and every table inside the file; the glyph
\* records refer to regions inside and outside the region table
GlyphTableFiles ==
    { File(Image(GenHeader(gap, nregs, Len(kinds)), gap, GenRegions(nregs),
                 GenRecords(gap, kinds))) :
        gap \in {0, 4}, nregs \in 0..MaxRegions,
        kinds \in UNION {[1..n -> RecKinds] : n \in 0..MaxGlyphs} }

\* files whose header fields vary one against the other
HeaderFiles ==
    { File(Image([GenHeader(gap, n, n) EXCEPT
                      !.format = v.format,
                      !.file_size = @ + v.size_delta,
                      !.tex_region_offset = IF v.region_offset = 0 THEN @
                                            ELSE v.region_offset,
                      !.glyph_offset = IF v.glyph_offset = 0 THEN @
                                       ELSE v.glyph_offset,
                      !.tex_region_count = @ + v.count_delta[1],
                      !.glyph_count = @ + v.count_delta[2],
                      !.texture_count = v.texture_count],
                 gap, GenRegions(n), GenRecords(gap, [k \in 1..n |-> [ref |-> 0, tid |-> 2]])) \o Zeros(v.tail)) :
        gap \in {0, 4}, n \in {0, 1},
        v \in [format : {MAGIC, MAGIC + 1, 0}, size_delta : {0, 1, 68},
               region_offset : {0, 31}, glyph_offset : {0, 8},
               count_delta : {<<0, 0>>, <<1, 0>>, <<0, 1>>},
               texture_count : {1, 5}, tail : {0, 18}] }

\* well-formed files cut after their first n bytes
TruncatedFiles ==
    { File(Slice(Image(GenHeader(0, nregs, nrecs), 0, GenRegions(nregs),
                       GenRecords(0, [k \in 1..nrecs |-> [ref |-> 0, tid |-> 0]])),
                 0, n)) :
        nregs \in 1..MaxRegions, nrecs \in 0..MaxGlyphs,
        n \in 0..(32 + 8 * MaxRegions + 24 * MaxGlyphs) }

\* well-formed files cut after their first n >= 32 bytes, declaring the size
\* of the header as fileSize: the header is whole, the tables are cut
CutFiles ==
    { File(Slice(Image([GenHeader(0, nregs, nrecs) EXCEPT !.file_size = 32], 0,
                       GenRegions(nregs),
                       GenRecords(0, [k \in 1..nrecs |-> [ref |-> 0, tid |-> 0]])),
                 0, n)) :
        nregs \in 0..MaxRegions, nrecs \in 0..MaxGlyphs,
        n \in {32 + 4 * j : j \in 0..(2 * MaxRegions + 6 * MaxGlyphs)} }

\* a header and nothing else, declaring tables of no or one entry at or after
\* the end of the file
FarTableFiles ==
    { File(HeaderBytes([GenHeader(0, 0, 0) EXCEPT
                            !.tex_region_offset = 32 + v.region_far,
                            !.glyph_offset = 32 + v.glyph_far,
                            !.tex_region_count = v.nregs,
                            !.glyph_count = v.nrecs])) :
        v \in [region_far : {0, 8}, glyph_far : {0, 24}, nregs : {0, 1},
               nrecs : {0, 1}] }

DecodeInputs ==
    GlyphTableFiles \cup HeaderFiles \cup TruncatedFiles \cup CutFiles
    \cup FarTableFiles

(***************************************************************************)
(* CCMEditor: the operations on its font self.ccm and its table.           *)
(***************************************************************************)
\* add_glyph with every dialog accepted: ok says whether the glyph was added
add_glyph(self, hp, code, texture_id, prespace, width, advance, x1, y1, x2, y2) ==
    IF texture_id >= self.texture_count
    THEN Return(self, hp, FALSE, "Invalid Texture ID")
    ELSE LET glyphs == Append(self.glyphs,
                              Glyph(code, Len(self.glyphs), texture_id, prespace,
                                    width, advance, Len(hp) + 1))
         IN Return([self EXCEPT !.glyphs = glyphs, !.glyph_count = Len(glyphs),
                                !.tex_region_count = Len(glyphs)],
                   Append(hp, TexRegion(x1, y1, x2, y2)), TRUE, "Added new glyph")

\* self.ccm.glyphs.pop(row) for row >= 0: the list without its element row
Pop(glyphs, row) ==
    SubSeq(glyphs, 1, row) \o SubSeq(glyphs, row + 2, Len(glyphs))

\* delete_glyph with row the table's current row (-1: none); pop raises
\* IndexError, out of the slot, when the table shows a row the list lacks
delete_glyph(self, hp, row) ==
    IF row < 0 THEN Return(self, hp, FALSE, "Select a glyph to delete")
    ELSE IF row >= Len(self.glyphs) THEN Return(self, hp, FALSE, "IndexError")
    ELSE LET glyphs == Pop(self.glyphs, row)
         IN Return([self EXCEPT !.glyphs = glyphs, !.glyph_count = Len(glyphs),
                                !.tex_region_count = Len(glyphs)],
                   hp, TRUE, "Deleted glyph")

\* update_glyph_from_table(row, column) with value the text of the cell; ok is
\* FALSE when the body raised (the except branch then redraws the table)
update_glyph_from_table(self, hp, row, column, value) ==
    LET Raise == Return(self, hp, FALSE, "Failed to update glyph")
        Set(glyph) == Return([self EXCEPT !.glyphs[row + 1] = glyph], hp, TRUE,
                             "Updated glyph")
        glyph == self.glyphs[row + 1]
        n == int(value)
        pair == eval(value)
    IN IF row >= Len(self.glyphs) THEN Raise
       ELSE IF column = 0
       THEN IF n.ok THEN Set([glyph EXCEPT !.code = n.val]) ELSE Raise
       ELSE IF column = 1
       THEN IF ~n.ok THEN Raise
            ELSE IF n.val < self.texture_count
            THEN Set([glyph EXCEPT !.texture_id = n.val])
            ELSE Return(self, hp, TRUE, "Invalid texture_id")
       ELSE IF column = 2
       THEN IF n.ok THEN Set([glyph EXCEPT !.prespace = n.val]) ELSE Raise
       ELSE IF column = 3
       THEN IF n.ok THEN Set([glyph EXCEPT !.width = n.val]) ELSE Raise
       ELSE IF column = 4
       THEN IF n.ok THEN Set([glyph EXCEPT !.advance = n.val]) ELSE Raise
       ELSE IF column = 5
       THEN IF pair.ok /\ pair.is_tuple /\ Len(pair.val) = 2
            THEN Return(self, [hp EXCEPT ![glyph.tex_region].x1 = pair.val[1],
                                         ![glyph.tex_region].y1 = pair.val[2]],
                        TRUE, "Updated glyph")
            ELSE Raise
       ELSE IF column = 6
       THEN IF pair.ok /\ pair.is_tuple /\ Len(pair.val) = 2
            THEN Return(self, [hp EXCEPT ![glyph.tex_region].x2 = pair.val[1],
                                         ![glyph.tex_region].y2 = pair.val[2]],
                        TRUE, "Updated glyph")
            ELSE Raise
       ELSE Return(self, hp, TRUE, "Updated glyph")

(***************************************************************************)
(* The inputs of the editor's operations.                                  *)
(***************************************************************************)
\* two regions, two glyphs, each glyph its own region, texture ids 0 and 1
ValidFile ==
    File(Image(GenHeader(4, 2, 2), 4, GenRegions(2),
               GenRecords(4, <<[ref |-> 0, tid |-> 0], [ref |-> 8, tid |-> 1]>>)))
\* one region both glyph records refer to
SharedRegionFile ==
    File(Image(GenHeader(0, 1, 2), 0, GenRegions(1),
               GenRecords(0, <<[ref |-> 0, tid |-> 0], [ref |-> 0, tid |-> 0]>>)))
\* two regions and one glyph record, which refers to the second
ExtraRegionFile ==
    File(Image(GenHeader(0, 2, 1), 0, GenRegions(2),
               GenRecords(0, <<[ref |-> 8, tid |-> 0]>>)))
\* a wrong magic
BadMagicFile ==
    File(Image([GenHeader(0, 1, 1) EXCEPT !.format = 0], 0, GenRegions(1),
               GenRecords(0, <<[ref |-> 0, tid |-> 0]>>)))
\* the second glyph record refers past the region table
BadRefFile ==
    File(Image(GenHeader(0, 1, 2), 0, GenRegions(1),
               GenRecords(0, <<[ref |-> 0, tid |-> 0], [ref |-> 8, tid |-> 0]>>)))
\* fewer bytes than a header
ShortFile == File(Slice(ValidFile.data, 0, 20))

\* the three bytes "AB" and a line feed
ThreeByteFile == File(<<65, 66, 10>>)

Files == {ValidFile, SharedRegionFile, ExtraRegionFile, BadMagicFile, BadRefFile,
          ShortFile, ThreeByteFile}

\* a glyph line with the pairs written without a blank: top=(x1,y1)
CompactGlyphLine(code, texture_id, x1) ==
    kCode \o str(code) \o kSep \o kTextureId \o str(texture_id) \o kSep
    \o kPrespace \o str(0 - 1) \o kSep \o kWidth \o str(6) \o kSep
    \o kAdvance \o str(8) \o kSep
    \o kTop \o <<"(">> \o str(x1) \o <<",">> \o str(2) \o <<")">> \o kSep
    \o kBottom \o <<"(">> \o str(x1 + 5) \o <<",">> \o str(9) \o <<")">>

TextFile(lines) == [readable |-> TRUE, lines |-> lines]

\* a header and two glyph lines
GoodText ==
    TextFile(<< kHeight \o <<" ">> \o str(20), kNumTextures \o <<" ">> \o str(2),
                kNumGlyphs \o <<" ">> \o str(7), <<>>,
                CompactGlyphLine(70, 0, 1), CompactGlyphLine(71, 1, 30) >>)
\* the first glyph line names a texture the header does not declare
SkipText ==
    TextFile(<< kNumTextures \o <<" ">> \o str(1),
                CompactGlyphLine(72, 1, 1), CompactGlyphLine(73, 0, 30) >>)
\* the second glyph line has the pairs as export_to_text writes them
MalformedText ==
    TextFile(<< CompactGlyphLine(74, 0, 1),
                ExportGlyphLine(Glyph(75, 0, 0, 0, 5, 6, 0), TexRegion(1, 2, 3, 4)) >>)

\* a glyph line as export_to_text writes it, for the values <<code, textureId,
\* prespace, width, advance, x1, y1, x2, y2>>
GrammarGlyphLine(v) ==
    ExportGlyphLine(Glyph(v[1], 0, v[2], v[3], v[4], v[5], 0),
                    TexRegion(v[6], v[7], v[8], v[9]))
\* the values of the two glyph lines of GrammarSkipText
GrammarSkipValues ==
    << <<72, 1, 0 - 1, 6, 8, 1, 2, 6, 9>>, <<73, 0, 0 - 1, 6, 8, 30, 2, 35, 9>> >>
\* one texture declared, then two glyph lines as export_to_text writes them,
\* the first of texture 1, the second of texture 0
GrammarSkipText ==
    TextFile(<< kNumTextures \o <<" ">> \o str(1),
                GrammarGlyphLine(GrammarSkipValues[1]),
                GrammarGlyphLine(GrammarSkipValues[2]) >>)
\* a header line, then a glyph line whose code is no integer and whose other
\* fields are missing
BrokenText ==
    TextFile(<< kHeight \o <<" ">> \o str(99), kCode \o <<"x">> >>)

\* two textures declared, a glyph line of texture 1, then one texture declared
LateHeaderText ==
    TextFile(<< kNumTextures \o <<" ">> \o str(2), CompactGlyphLine(77, 1, 1),
                kNumTextures \o <<" ">> \o str(1) >>)

Texts == {GoodText, SkipText, MalformedText, GrammarSkipText, BrokenText,
          LateHeaderText}

\* the texture ids typed into add_glyph's dialog
AddTextureIds == {0, 1}

\* the cells edited: <<column, text>>
CellEdits ==
    { <<0, str(80)>>, <<1, str(0)>>, <<1, str(1)>>, <<2, str(0 - 3)>>,
      <<3, <<"x">> >>, <<3, str(11)>>, <<4, str(12)>>,
      <<5, <<"(", "4", "0", ",", " ", "4", "1", ")">>>>, <<6, <<"(", "4", "8", ",", "4", "9", ")">>>>, <<6, str(5)>> }

(***************************************************************************)
(* The state machine.                                                      *)
(***************************************************************************)
Init ==
    /\ ccm = CCMFont
    /\ heap = <<>>
    /\ table_rows = 0
    /\ disk = Unreadable
    /\ text = [readable |-> FALSE, lines |-> <<>>]
    /\ last = [op |-> "init", ok |-> TRUE, msg |-> "", row |-> 0 - 1,
               column |-> 0 - 1, io_ok |-> TRUE]
    /\ steps = 0
    /\ intact = TRUE

\* what an operation leaves: the objects it returned, and what it returned;
\* row and column are the cell it was given (-1: none), io_ok whether the
\* file system let it open and write its file
Done(op, r, row, column, io_ok) ==
    \E c \in {Collect(r.self, r.heap)} :
       /\ ccm' = c.self
       /\ heap' = c.heap
       /\ last' = [op |-> op, ok |-> r.ok, msg |-> r.msg, row |-> row,
                   column |-> column, io_ok |-> io_ok]
       /\ steps' = steps + 1
       /\ intact' = (intact /\ (op \in {"load_file", "import_from_text"} => r.ok))

\* update_table(): one row per glyph
update_table(self) == Len(self.glyphs)

\* CCMEditor.load_ccm on the file f: the table is redrawn after a success
load_ccm(f) ==
    \E r \in {load_file(ccm, heap, "font.ccm", f)} :
       /\ Done("load_file", r, 0 - 1, 0 - 1, f.readable)
       /\ table_rows' = IF r.ok THEN update_table(r.self) ELSE table_rows
       /\ UNCHANGED <<disk, text>>

\* CCMEditor.save_ccm: the font's filename is set after a success
save_ccm(io_ok) ==
    \E r \in {save_file(ccm, heap, "saved.ccm", io_ok)} :
       /\ Done("save_file",
               Return(IF r.ok THEN [r.self EXCEPT !.filename = "saved.ccm"]
                      ELSE r.self, r.heap, r.ok, r.msg), 0 - 1, 0 - 1, io_ok)
       /\ disk' = IF r.wrote THEN File(r.data) ELSE disk
       /\ UNCHANGED <<table_rows, text>>

\* CCMEditor.export_to_text
export_text(io_ok) ==
    \E r \in {export_to_text(ccm, heap, io_ok)} :
       /\ Done("export_to_text", r, 0 - 1, 0 - 1, io_ok)
       /\ text' = IF r.ok THEN TextFile(r.lines) ELSE text
       /\ UNCHANGED <<table_rows, disk>>

\* CCMEditor.import_from_text on the text file f
import_text(f) ==
    \E r \in {import_from_text(ccm, heap, f)} :
       /\ Done("import_from_text", r, 0 - 1, 0 - 1, f.readable)
       /\ table_rows' = IF r.ok THEN update_table(r.self) ELSE table_rows
       /\ UNCHANGED <<disk, text>>

LoadFile == steps < MaxSteps /\ \E f \in Files \cup {disk} : load_ccm(f)

SaveFile == steps < MaxSteps /\ \E io_ok \in BOOLEAN : save_ccm(io_ok)

ExportToText == steps < MaxSteps /\ \E io_ok \in BOOLEAN : export_text(io_ok)

ImportFromText == steps < MaxSteps /\ \E f \in Texts \cup {text} : import_text(f)

AddGlyph ==
    /\ steps < MaxSteps
    /\ Len(ccm.glyphs) < MaxLive
    /\ \E texture_id \in AddTextureIds :
          \E r \in {add_glyph(ccm, heap, 90, texture_id, 1, 5, 6, 100, 101, 102, 103)} :
             /\ Done("add_glyph", r, 0 - 1, 0 - 1, TRUE)
             /\ table_rows' = IF r.ok THEN update_table(r.self) ELSE table_rows
    /\ UNCHANGED <<disk, text>>

DeleteGlyph ==
    /\ steps < MaxSteps
    /\ \E row \in (0 - 1)..(table_rows - 1) :
          \E r \in {delete_glyph(ccm, heap, row)} :
             /\ Done("delete_glyph", r, row, 0 - 1, TRUE)
             /\ table_rows' = IF r.ok THEN update_table(r.self) ELSE table_rows
    /\ UNCHANGED <<disk, text>>

UpdateGlyph ==
    /\ steps < MaxSteps
    /\ \E row \in 0..(table_rows - 1), edit \in CellEdits :
          \E r \in {update_glyph_from_table(ccm, heap, row, edit[1], edit[2])} :
             /\ Done("update_glyph_from_table", r, row, edit[1], TRUE)
             /\ table_rows' = IF r.ok THEN table_rows ELSE update_table(r.self)
    /\ UNCHANGED <<disk, text>>

\* CCMEditor.dump_file: the text of the debug pane is what dump_file returned
DumpFile ==
    /\ steps < MaxSteps
    /\ \E r \in {dump_file(ccm)} :
          last' = [op |-> "dump_file", ok |-> r.ok, msg |-> r.msg, row |-> 0 - 1,
                   column |-> 0 - 1, io_ok |-> TRUE, dump |-> r.dump]
    /\ steps' = steps + 1
    /\ UNCHANGED <<ccm, heap, table_rows, disk, text, intact>>

Next ==
    \/ LoadFile
    \/ SaveFile
    \/ ExportToText
    \/ ImportFromText
    \/ AddGlyph
    \/ DeleteGlyph
    \/ UpdateGlyph
    \/ DumpFile

Spec == Init /\ [][Next]_vars

\* one decode of a generated input file by the freshly constructed font
DecodeFile ==
    /\ steps = 0
    /\ \E f \in DecodeInputs : load_ccm(f)

SpecDecode == Init /\ [][DecodeFile]_vars

(***************************************************************************)
(* The properties.  A file's fields are read here at the byte offsets of   *)
(* the format's layout table, not through load_file.                       *)
(***************************************************************************)
\* the unsigned little-endian field of w bytes at byte offset off of buf
FieldAt(buf, off, w) == LEValue(SubSeq(buf, off + 1, off + w))
HdrFormat(buf) == FieldAt(buf, 0, 4)
HdrFileSize(buf) == FieldAt(buf, 4, 4)
HdrRegionCount(buf) == FieldAt(buf, 14, 2)
HdrGlyphCount(buf) == FieldAt(buf, 16, 2)
HdrRegionOffset(buf) == FieldAt(buf, 20, 4)
HdrGlyphOffset(buf) == FieldAt(buf, 24, 4)
HdrTextureCount(buf) == FieldAt(buf, 30, 2)
\* the region byte offset held by glyph record k (from 0)
RecRegionOffset(buf, k) == FieldAt(buf, HdrGlyphOffset(buf) + 24 * k + 4, 4)
\* the bytes of the header's fields: 4+4+2+2+2+2+2+2+4+4+2+2
LayoutSize == 4 + 4 + 2 + 2 + 2 + 2 + 2 + 2 + 4 + 4 + 2 + 2

SizeErrors == {"File too small for header", "File size mismatch"}
FormatErrors == {"Invalid CCM format", "Invalid offsets"}
ReferenceErrors == {"invalid texRegionOffset", "texRegion index out of range"}

\* the values of the glyphs of font self, in order, with their regions' corners
GlyphValues(self, hp) ==
    [k \in 1..Len(self.glyphs) |->
        <<self.glyphs[k].code, self.glyphs[k].texture_id, self.glyphs[k].prespace,
          self.glyphs[k].width, self.glyphs[k].advance,
          hp[self.glyphs[k].tex_region].x1, hp[self.glyphs[k].tex_region].y1,
          hp[self.glyphs[k].tex_region].x2, hp[self.glyphs[k].tex_region].y2>>]

Decoded(f) == load_file(CCMFont, <<>>, "font.ccm", f)

\* C1: after save_file on a font with a non-empty glyph list whose texture ids
\* are all >= 0 and below textureCount, with a file system that works, the
\* save succeeded, and decoding the written bytes succeeds and gives the same
\* glyph values in the same order, regionCount = glyphCount = len(glyphs) and
\* textureCount = max(textureId) + 1.
C1_RoundTrip ==
    (/\ last.op = "save_file"
     /\ last.io_ok
     /\ ccm.glyphs # <<>>
     /\ \A k \in 1..Len(ccm.glyphs) :
           ccm.glyphs[k].texture_id >= 0
           /\ ccm.glyphs[k].texture_id < ccm.texture_count)
    => /\ last.ok
       /\ disk.readable
       /\ Decoded(disk).ok
       /\ GlyphValues(Decoded(disk).self, Decoded(disk).heap) = GlyphValues(ccm, heap)
       /\ Decoded(disk).self.tex_region_count = Len(ccm.glyphs)
       /\ Decoded(disk).self.glyph_count = Len(ccm.glyphs)
       /\ Decoded(disk).self.texture_count = MaxTextureId(ccm.glyphs) + 1

\* C2: save_file fails only when the write step fails: with a file system
\* that works it returns success.
C2_EncodeTotal == (last.op = "save_file" /\ last.io_ok) => last.ok

\* C3: a load_file that returns failure leaves the font as it was before the
\* call: header fields, glyph list, regions and raw bytes.
C3_DecodeAllOrNothing ==
    [][(steps' = steps + 1 /\ last'.op = "load_file" /\ ~last'.ok)
       => (ccm' = ccm /\ heap' = heap)]_vars

\* C4: load_file rejects with a size error every buffer shorter than 36 bytes.
C4_ShortBufferRejected ==
    (last.op = "load_file" /\ Len(ccm.raw_data) < 36)
    => (~last.ok /\ last.msg \in SizeErrors)

\* C5: a buffer long enough to hold the header whose format field is not
\* 0x20000 fails with the format error, whatever the other header fields are.
C5_MagicCheckedFirst ==
    (/\ last.op = "load_file"
     /\ Len(ccm.raw_data) >= LayoutSize
     /\ HdrFormat(ccm.raw_data) # 131072)
    => (~last.ok /\ last.msg = "Invalid CCM format")

\* C5 witness: a bad magic together with a fileSize above the buffer length and
\* a region offset inside the header, rejected for the magic.
C5_Witness ==
    /\ last.op = "load_file"
    /\ Len(ccm.raw_data) >= 36
    /\ HdrFormat(ccm.raw_data) # 131072
    /\ HdrFileSize(ccm.raw_data) > Len(ccm.raw_data)
    /\ HdrRegionOffset(ccm.raw_data) < LayoutSize
    /\ ~last.ok
    /\ last.msg = "Invalid CCM format"

\* C6: a buffer with the valid magic whose fileSize field exceeds the buffer
\* length fails with a size error; after a successful decode fileSize is at
\* most the buffer length.
C6_DeclaredSizeChecked ==
    /\ (/\ last.op = "load_file"
        /\ Len(ccm.raw_data) >= 8
        /\ HdrFormat(ccm.raw_data) = 131072
        /\ HdrFileSize(ccm.raw_data) > Len(ccm.raw_data))
       => (~last.ok /\ last.msg \in SizeErrors)
    /\ (last.op = "load_file" /\ last.ok) => ccm.file_size <= Len(ccm.raw_data)

\* C6 witness: fileSize = 100 in a 50-byte buffer with the valid magic.
C6_Witness ==
    /\ last.op = "load_file"
    /\ Len(ccm.raw_data) = 50
    /\ HdrFormat(ccm.raw_data) = 131072
    /\ HdrFileSize(ccm.raw_data) = 100
    /\ ~last.ok
    /\ last.msg = "File size mismatch"

\* whether the region byte offset ref is regionOffset + 8k for a k in
\* 0..regionCount-1
Resolves(buf, ref) ==
    \E k \in 0..(HdrRegionCount(buf) - 1) : ref = HdrRegionOffset(buf) + 8 * k

\* the header of buf passes load_file's header checks and its region table
\* lies inside buf
TablesReadable(buf) ==
    /\ Len(buf) >= LayoutSize
    /\ HdrFormat(buf) = 131072
    /\ HdrFileSize(buf) <= Len(buf)
    /\ HdrRegionOffset(buf) >= LayoutSize
    /\ HdrGlyphOffset(buf) >= LayoutSize
    /\ HdrRegionOffset(buf) + 8 * HdrRegionCount(buf) <= Len(buf)

\* C7: when the header checks pass, the region table is read, and some glyph
\* record inside the buffer holds a region byte offset that is not
\* regionOffset + 8k with 0 <= k < regionCount, load_file fails with a
\* reference error; after a successful decode every glyph record's region
\* byte offset is regionOffset + 8k for such a k.
C7_RegionReferenceChecked ==
    /\ (/\ last.op = "load_file"
        /\ TablesReadable(ccm.raw_data)
        /\ \E k \in 0..(HdrGlyphCount(ccm.raw_data) - 1) :
              /\ HdrGlyphOffset(ccm.raw_data) + 24 * (k + 1) <= Len(ccm.raw_data)
              /\ ~Resolves(ccm.raw_data, RecRegionOffset(ccm.raw_data, k)))
       => (~last.ok /\ last.msg \in ReferenceErrors)
    /\ (last.op = "load_file" /\ last.ok)
       => \A k \in 0..(HdrGlyphCount(ccm.raw_data) - 1) :
             Resolves(ccm.raw_data, RecRegionOffset(ccm.raw_data, k))

\* C7 witness: regionCount = 1 and one glyph record whose region byte offset is
\* regionOffset + 8, rejected as out of range.
C7_Witness ==
    /\ last.op = "load_file"
    /\ TablesReadable(ccm.raw_data)
    /\ HdrRegionCount(ccm.raw_data) = 1
    /\ HdrGlyphCount(ccm.raw_data) = 1
    /\ HdrGlyphOffset(ccm.raw_data) + 24 <= Len(ccm.raw_data)
    /\ RecRegionOffset(ccm.raw_data, 0) = HdrRegionOffset(ccm.raw_data) + 8
    /\ ~last.ok
    /\ last.msg = "texRegion index out of range"

\* the texture ids of the glyphs of font self
TextureIds(self) == {self.glyphs[k].texture_id : k \in 1..Len(self.glyphs)}

\* C8: after a successful load_file, textureCount is max(textureId) + 1 when
\* the glyph list is not empty, and the header's declared value when it is.
C8_TextureCountRecomputed ==
    (last.op = "load_file" /\ last.ok)
    => IF ccm.glyphs # <<>>
       THEN /\ ccm.texture_count - 1 \in TextureIds(ccm)
            /\ \A t \in TextureIds(ccm) : t <= ccm.texture_count - 1
       ELSE ccm.texture_count = HdrTextureCount(ccm.raw_data)

\* C8 witness: a decoded font of two glyphs, the second with the larger texture
\* id, whose header declared another count than max + 1.
C8_Witness ==
    /\ last.op = "load_file"
    /\ last.ok
    /\ Len(ccm.glyphs) = 2
    /\ ccm.glyphs[1].texture_id < ccm.glyphs[2].texture_id
    /\ ccm.texture_count = ccm.glyphs[2].texture_id + 1
    /\ HdrTextureCount(ccm.raw_data) # ccm.texture_count

\* C9: after a successful decode, add-glyph, delete-glyph or text import, and
\* after an encode, regionCount = glyphCount = len(glyphs).
C9_CountInvariant ==
    (\/ last.op = "save_file"
     \/ (last.ok /\ last.op \in {"load_file", "add_glyph", "delete_glyph",
                                 "import_from_text"}))
    => /\ ccm.tex_region_count = ccm.glyph_count
       /\ ccm.glyph_count = Len(ccm.glyphs)

\* C10: in a font produced by a successful decode, text import or add-glyph no
\* two distinct glyphs share a region.
C10_RegionOwnership ==
    (last.ok /\ last.op \in {"load_file", "add_glyph", "import_from_text"})
    => \A i, j \in 1..Len(ccm.glyphs) :
          i # j => ccm.glyphs[i].tex_region # ccm.glyphs[j].tex_region

\* C11: after save_file on a font of n glyphs, fileSize = 36 + 8n + 24n, and
\* the file it wrote holds regionOffset = 36, glyphOffset = 36 + 8n and, in the
\* glyph record at position i, the region byte offset 36 + 8i.
C11_CanonicalLayout ==
    last.op = "save_file"
    => /\ ccm.file_size = 36 + 8 * Len(ccm.glyphs) + 24 * Len(ccm.glyphs)
       /\ last.ok
          => /\ HdrRegionOffset(disk.data) = 36
             /\ HdrGlyphOffset(disk.data) = 36 + 8 * Len(ccm.glyphs)
             /\ \A i \in 0..(Len(ccm.glyphs) - 1) :
                   RecRegionOffset(disk.data, i) = 36 + 8 * i

\* C12: the text a successful export_to_text wrote for the font imports with
\* success, and the imported glyph list has the same length and order and the
\* same values (code, textureId, prespace, width, advance, region corners)
\* as the exported font, with regionCount = glyphCount = len(glyphs).
C12_TextRoundTrip ==
    (last.op = "export_to_text" /\ last.ok)
    => \A r \in {import_from_text(ccm, heap, text)} :
          /\ r.ok
          /\ GlyphValues(r.self, r.heap) = GlyphValues(ccm, heap)
          /\ r.self.tex_region_count = Len(ccm.glyphs)
          /\ r.self.glyph_count = Len(ccm.glyphs)

\* C13: an import of a text whose glyph lines are well formed returns success;
\* a glyph line whose textureId is >= the textureCount at that moment appends
\* no glyph, every other glyph line appends one glyph, in line order, and
\* afterwards regionCount = glyphCount = len(glyphs).  Here the text declares
\* one texture and holds a glyph line of texture 1, then one of texture 0.
C13_InvalidTextureSkipped ==
    [][import_text(GrammarSkipText)
       => /\ last'.ok
          /\ GlyphValues(ccm', heap') = <<GrammarSkipValues[2]>>
          /\ ccm'.tex_region_count = Len(ccm'.glyphs)
          /\ ccm'.glyph_count = Len(ccm'.glyphs)]_vars

\* the header fields a text import can set, and the counts
TextFields(self) ==
    <<self.font_height, self.texture_width, self.texture_height,
      self.texture_count, self.glyph_count, self.tex_region_count>>

\* C14: an import of a text with a malformed glyph line returns failure and
\* leaves the font as it was before the call: the glyph list and fontHeight,
\* textureWidth, textureHeight, textureCount, glyphCount and regionCount.
C14_MalformedImportAtomic ==
    [][import_text(BrokenText)
       => /\ ~last'.ok
          /\ GlyphValues(ccm', heap') = GlyphValues(ccm, heap)
          /\ TextFields(ccm') = TextFields(ccm)]_vars

\* the hex pairs of the bytes, one blank between two pairs
RECURSIVE SpacedHexPairs(_)
SpacedHexPairs(bytes) ==
    IF bytes = <<>> THEN <<>>
    ELSE <<HexDigits[(Head(bytes) \div 16) + 1], HexDigits[(Head(bytes) % 16) + 1]>>
         \o (IF Len(bytes) = 1 THEN <<>> ELSE <<" ">> \o SpacedHexPairs(Tail(bytes)))

\* the bytes 0x20..0x7e as their characters, every other byte as "."
AsciiColumn(bytes) ==
    [k \in 1..Len(bytes) |->
        IF bytes[k] \in 32..126 THEN Printable[bytes[k] - 31] ELSE "."]

\* the line "00000000  41 42 0a                         AB."
AB_Line ==
    <<"0", "0", "0", "0", "0", "0", "0", "0", " ", " ", "4", "1",
      " ", "4", "2", " ", "0", "a", " ", " ", " ", " ", " ", " ",
      " ", " ", " ", " ", " ", " ", " ", " ", " ", " ", " ", " ",
      " ", " ", " ", " ", " ", " ", " ", "A", "B", ".">>

\* C15: a successful dump_file gives one line per 16 bytes: the offset as 8
\* lowercase hex digits, two blanks, the bytes as hex pairs separated by
\* blanks and padded with blanks, two blanks, then the ASCII column; the
\* bytes 0x41, 0x42, 0x0a give the one line
\* "00000000  41 42 0a                         AB.".
C15_DumpFormat ==
    (last.op = "dump_file" /\ last.ok)
    => /\ \A lines \in {split(last.dump, <<"\n">>)} :
             /\ Len(lines) = (Len(ccm.raw_data) + 15) \div 16
             /\ \A k \in 1..Len(lines) :
                   \A chunk \in {Slice(ccm.raw_data, 16 * (k - 1), 16 * k)} :
                      \E pad \in 0..48 :
                         lines[k] = Hex08(16 * (k - 1)) \o <<" ", " ">>
                                    \o SpacedHexPairs(chunk)
                                    \o [j \in 1..pad |-> " "] \o <<" ", " ">>
                                    \o AsciiColumn(chunk)
       /\ ccm.raw_data = <<65, 66, 10>> => last.dump = AB_Line

\* C17: in every state reached from the empty font through operations of
\* which no load_file and no import_from_text returned failure, every glyph's
\* textureId is below the font's textureCount.
C17_TextureIdBound ==
    intact => \A k \in 1..Len(ccm.glyphs) :
                 ccm.glyphs[k].texture_id < ccm.texture_count

\* the header of buf passes load_file's header checks
HeaderChecksPass(buf) ==
    /\ Len(buf) >= LayoutSize
    /\ HdrFormat(buf) = 131072
    /\ HdrFileSize(buf) <= Len(buf)
    /\ HdrRegionOffset(buf) >= LayoutSize
    /\ HdrGlyphOffset(buf) >= LayoutSize

\* some region of the region table buf declares has bytes past the end of buf
RegionTableCut(buf) ==
    \E j \in 1..HdrRegionCount(buf) : HdrRegionOffset(buf) + 8 * j > Len(buf)

\* some record of the glyph table buf declares has bytes past the end of buf
GlyphTableCut(buf) ==
    \E k \in 1..HdrGlyphCount(buf) : HdrGlyphOffset(buf) + 24 * k > Len(buf)

====
